---- MODULE Spec2Model ----
(***************************************************************************)
(* Declarative index reconciliation of typed-mongo:                        *)
(*   Model.syncIndexes      (src/src/model.ts, lines 74-124)               *)
(*   TypedMongo.model       (src/src/index.ts, lines 20-27)                *)
(*   TypedMongo.syncIndexes (src/src/index.ts, lines 38-51)                *)
(* Every await of the code is one step: the store call takes effect and    *)
(* the code runs on to its next await, return or throw.                    *)
(***************************************************************************)
EXTENDS Integers, Sequences, FiniteSets, TLC

\* ------------------------------------------------------------------ bounds
MaxExisting == 3    \* secondary indexes on the collection in the initial state
MaxDesired == 2     \* descriptors in a declared index list
MaxHandles == 1     \* Model instances of the single-collection specification
MaxRuns == 2        \* Model.syncIndexes calls made directly by the caller
MaxModels == 2      \* TypedMongo.model calls of the registry specification
MaxTMExisting == 1  \* secondary indexes per collection, registry specification
MaxTMDesired == 1   \* descriptors per declaration, registry specification
MaxSyncs == 1       \* TypedMongo.syncIndexes calls
MaxDecls == 3       \* TypedMongo.model calls of the re-declaration specification

\* ------------------------------------------------------------- vocabulary
PrimaryKeyIndexName == "_id_"
IdIndex == [name |-> PrimaryKeyIndexName, shape |-> "plain"]

\* An IndexDescription, reduced to the name the store resolves it to and
\* the rest of its body (key and options), which decides a conflict.
SecondaryDescs ==
  { [name |-> "a_1", shape |-> "plain"], [name |-> "a_1", shape |-> "unique"],
    [name |-> "b_1", shape |-> "plain"], [name |-> "c_1", shape |-> "plain"] }
Descs == SecondaryDescs \cup {IdIndex}
\* The descriptors in the order a caller lists them, and the descriptors
\* the registry specification declares.
DescOrder ==
  << IdIndex, [name |-> "a_1", shape |-> "plain"], [name |-> "a_1", shape |-> "unique"],
     [name |-> "b_1", shape |-> "plain"], [name |-> "c_1", shape |-> "plain"] >>
TMDescs == { [name |-> "a_1", shape |-> "plain"], [name |-> "b_1", shape |-> "plain"] }

Colls == {"users", "posts"}
TMs == {1, 2}
H == 1..(IF MaxHandles > MaxModels /\ MaxHandles > MaxDecls THEN MaxHandles
        ELSE IF MaxModels > MaxDecls THEN MaxModels ELSE MaxDecls)

SeqsUpTo(S, n) == UNION { [1..m -> S] : m \in 0..n }
DistinctNames(s) == \A i, j \in 1..Len(s) : s[i].name = s[j].name => i = j
NamesOf(s) == { s[i].name : i \in 1..Len(s) }
RangeOf(s) == { s[i] : i \in 1..Len(s) }
NameSeq(s) == [i \in 1..Len(s) |-> s[i].name]

\* ModelOptions.indexes: absent, or a list of descriptors.
NoIndexes == [defined |-> FALSE, list |-> <<>>]
OptionsUpTo(S, n) ==
  {NoIndexes} \cup
  { [defined |-> TRUE, list |-> l] : l \in { s \in SeqsUpTo(S, n) : DistinctNames(s) } }

\* The declarations of the single-collection specification list their
\* descriptors in the order of DescOrder.
Position(d) == CHOOSE i \in 1..Len(DescOrder) : DescOrder[i] = d
InOrder(s) == \A i, j \in 1..Len(s) : i < j => Position(s[i]) < Position(s[j])
OrderedOptions(n) == { o \in OptionsUpTo(Descs, n) : InOrder(o.list) }

\* Index lists a collection can hold: none when the collection does not
\* exist, otherwise the primary-key index first and then the secondary ones.
StoresUpTo(S, n) ==
  {<<>>} \cup
  { <<IdIndex>> \o s : s \in { q \in SeqsUpTo(S, n) : DistinctNames(q) } }

\* ------------------------------------------------------------------ state
VARIABLES
  store,    \* store[c]: the indexes of collection c, in listing order
  hnd,      \* hnd[h]: Model instance h: collection, indexes, owning TypedMongo
  alloc,    \* number of Model instances constructed
  models,   \* models[t]: the Map of TypedMongo t, in insertion order
  run,      \* run[h]: the Model.syncIndexes call in progress on instance h
  orch,     \* orch[t]: the TypedMongo.syncIndexes call in progress on t
  nRuns,    \* direct Model.syncIndexes calls made
  nSyncs,   \* TypedMongo.syncIndexes calls made
  lastRun   \* lastRun[c]: the instance whose call on c began last (0: none)

vars == <<store, hnd, alloc, models, run, orch, nRuns, nSyncs, lastRun>>

NoResult == [created |-> <<>>, dropped |-> <<>>]

IdleRun ==
  [ pc |-> "idle", oldIndexNames |-> <<>>, newIndexNames |-> <<>>,
    toDropIndexNames |-> <<>>, createdIndexNames |-> <<>>,
    droppedIndexNames |-> <<>>, k |-> 1, err |-> "", result |-> NoResult,
    \* history of the call, for the properties
    nList |-> 0, nCreate |-> 0, dropCalls |-> <<>>, failedAt |-> "",
    rejected |-> [op |-> "", err |-> ""],
    start |-> <<>>, again |-> FALSE, end |-> <<>> ]

NoHandle == [coll |-> "users", indexes |-> NoIndexes, tm |-> 0]

IdleOrch ==
  [ pc |-> "idle", pos |-> 0, cur |-> 0, results |-> <<>>, err |-> "",
    \* history of the call, for the properties
    visited |-> <<>>, registry |-> <<>>, begun |-> <<>> ]

\* ------------------------------------------------------------- the store
\* Collection.listIndexes().toArray(), as called at model.ts:85.
ListIndexesStore(s, fault) ==
  IF fault THEN [ok |-> FALSE, err |-> "StoreError", indexes |-> <<>>]
  ELSE IF s = <<>> THEN [ok |-> FALSE, err |-> "NamespaceNotFound", indexes |-> <<>>]
  ELSE [ok |-> TRUE, err |-> "", indexes |-> s]

RECURSIVE AddAll(_, _)
AddAll(s, descs) ==
  IF descs = <<>> THEN s
  ELSE AddAll(IF Head(descs).name \in NamesOf(s) THEN s ELSE Append(s, Head(descs)),
              Tail(descs))

\* Collection.createIndexes(descs), as called at model.ts:99: creates the
\* collection when needed, skips descriptors equal to an existing index,
\* rejects the batch on a name that exists with another body.
CreateIndexesStore(s, descs, fault) ==
  LET base == IF s = <<>> THEN <<IdIndex>> ELSE s
      conflict == \E i \in 1..Len(descs), j \in 1..Len(base) :
                    descs[i].name = base[j].name /\ descs[i].shape # base[j].shape
  IN  IF fault THEN [ok |-> FALSE, err |-> "StoreError", names |-> <<>>, store |-> s]
      ELSE IF conflict THEN [ok |-> FALSE, err |-> "Conflict", names |-> <<>>, store |-> s]
      ELSE [ok |-> TRUE, err |-> "", names |-> NameSeq(descs), store |-> AddAll(base, descs)]

\* Collection.dropIndex(name), as called at model.ts:116.
DropIndexStore(s, name, fault) ==
  LET Keep(x) == x.name # name
  IN  IF fault THEN [ok |-> FALSE, err |-> "StoreError", store |-> s]
      ELSE IF name \notin NamesOf(s) THEN [ok |-> FALSE, err |-> "IndexNotFound", store |-> s]
      ELSE [ok |-> TRUE, err |-> "", store |-> SelectSeq(s, Keep)]

\* ------------------------------------------------------ Model.syncIndexes
\* Variant: only an absent list exits early.
EarlyExit_AbsentOnly(indexes) == ~indexes.defined

\* model.ts:75  if (!this.indexes || this.indexes.length === 0)
EarlyExit(indexes) == ~indexes.defined \/ Len(indexes.list) = 0

\* Variant: only the not-found error is thrown on, any other is taken as
\* an empty listing.
RethrowsListError_OnlyNotFound(err) == err = "NamespaceNotFound"

\* model.ts:88-96  the catch around listIndexes: whether the error is thrown
\* on to the caller.
RethrowsListError(err) == TRUE

\* Variant: the filter keeps the names that are in the new set.
ToDropIndexNames_Kept(oldNames, newNames) ==
  LET newIndexNamesSet == { newNames[i] : i \in 1..Len(newNames) }
      Test(item) == item \in newIndexNamesSet
  IN  SelectSeq(oldNames, Test)

\* Variant: every drop candidate is listed twice.
ToDropIndexNames_Twice(oldNames, newNames) ==
  LET newIndexNamesSet == { newNames[i] : i \in 1..Len(newNames) }
      Test(item) == item \notin newIndexNamesSet
  IN  SelectSeq(oldNames, Test) \o SelectSeq(oldNames, Test)

\* Variant: the drop candidates come out in reverse listing order.
ToDropIndexNames_Reversed(oldNames, newNames) ==
  LET newIndexNamesSet == { newNames[i] : i \in 1..Len(newNames) }
      Test(item) == item \notin newIndexNamesSet
      q == SelectSeq(oldNames, Test)
  IN  [i \in 1..Len(q) |-> q[Len(q) + 1 - i]]

\* Variant: every listed name is a drop candidate.
ToDropIndexNames_All(oldNames, newNames) == oldNames

\* Variant: the filter tests against the old names, so nothing is left.
ToDropIndexNames_None(oldNames, newNames) ==
  LET oldIndexNamesSet == { oldNames[i] : i \in 1..Len(oldNames) }
      Test(item) == item \notin oldIndexNamesSet
  IN  SelectSeq(oldNames, Test)

\* model.ts:105  oldIndexNames.filter((item) => !newIndexNamesSet.has(item))
ToDropIndexNames(oldNames, newNames) ==
  LET newIndexNamesSet == { newNames[i] : i \in 1..Len(newNames) }
      Test(item) == item \notin newIndexNamesSet
  IN  SelectSeq(oldNames, Test)

\* Variant: every returned name is reported as created.
CreatedIndexNames_All(oldNames, newNames) == newNames

\* model.ts:106  newIndexNames.filter((item) => !oldIndexNamesSet.has(item))
CreatedIndexNames(oldNames, newNames) ==
  LET oldIndexNamesSet == { oldNames[i] : i \in 1..Len(oldNames) }
      Test(item) == item \notin oldIndexNamesSet
  IN  SelectSeq(newNames, Test)

\* Variant: the loop skips nothing.
SkipsIndex_Never(indexName) == FALSE

\* model.ts:112-114  if (indexName === '_id_') continue
SkipsIndex(indexName) == indexName = PrimaryKeyIndexName

\* model.ts:110-114  the loop runs on to the next name it awaits a drop for.
RECURSIVE NextDrop(_, _)
NextDrop(toDrop, k) ==
  IF k > Len(toDrop) THEN k
  ELSE IF SkipsIndex(toDrop[k]) THEN NextDrop(toDrop, k + 1)
  ELSE k

\* model.ts:110-123  after the diff or after a drop: await the next drop or
\* return the result.
LoopOn(r, k, endStore) ==
  LET n == NextDrop(r.toDropIndexNames, k)
  IN  IF n > Len(r.toDropIndexNames)
      THEN [r EXCEPT !.pc = "done", !.k = n, !.end = endStore,
                     !.result = [created |-> r.createdIndexNames,
                                 dropped |-> r.droppedIndexNames]]
      ELSE [r EXCEPT !.pc = "drop", !.k = n,
                     !.dropCalls = Append(r.dropCalls, r.toDropIndexNames[n])]

\* Variant: a rejected listIndexes is tried once more before giving up.
ListRejected_Retry(r, err) ==
  IF r.nList < 2
  THEN [r EXCEPT !.pc = "list", !.nList = r.nList + 1]
  ELSE [r EXCEPT !.pc = "failed", !.err = err, !.failedAt = "list", !.oldIndexNames = <<>>]

\* model.ts:88-96  listIndexes rejected: the catch block.
ListRejected(r, err) ==
  IF RethrowsListError(err)
  THEN [r EXCEPT !.pc = "failed", !.err = err, !.failedAt = "list", !.oldIndexNames = <<>>]
  ELSE [r EXCEPT !.pc = "create", !.nCreate = 1, !.oldIndexNames = <<>>]

\* Variant: the create error is swallowed and the drop loop runs anyway.
CreateRejected_Swallowed(r, err) ==
  LoopOn([r EXCEPT !.toDropIndexNames = ToDropIndexNames(r.oldIndexNames, <<>>)], 1, r.start)

\* model.ts:99  createIndexes rejected: nothing catches, the call rejects.
CreateRejected(r, err) ==
  [r EXCEPT !.pc = "failed", !.err = err, !.failedAt = "create"]

\* Variant: a rejected drop is tried again, until more drops were tried
\* than names were listed.
DropRejected_Retry(r, err) ==
  IF Len(r.dropCalls) <= Len(r.oldIndexNames)
  THEN [r EXCEPT !.pc = "drop",
                 !.dropCalls = Append(r.dropCalls, r.toDropIndexNames[r.k])]
  ELSE [r EXCEPT !.pc = "failed", !.err = err, !.failedAt = "drop"]

\* Variant: a drop rejected for a missing index is taken as done.
DropRejected_IgnoreMissing(r, err) ==
  IF err = "IndexNotFound"
  THEN LoopOn(r, r.k + 1, r.start)
  ELSE [r EXCEPT !.pc = "failed", !.err = err, !.failedAt = "drop"]

\* Variant: a failed drop is skipped and the loop goes on.
DropRejected_Continue(r, err) == LoopOn(r, r.k + 1, r.start)

\* model.ts:116  dropIndex rejected: nothing catches, the call rejects.
DropRejected(r, err) ==
  [r EXCEPT !.pc = "failed", !.err = err, !.failedAt = "drop"]

\* Variant: a handle that completed a call keeps the index names it left
\* and skips listIndexes on its next call.
BeginRun_Cached(h) ==
  LET s == store[hnd[h].coll]
      r == [IdleRun EXCEPT !.start = s,
                           !.again = (run[h].pc = "done" /\ run[h].end = s)]
  IN  IF EarlyExit(hnd[h].indexes)
      THEN [r EXCEPT !.pc = "done", !.end = s, !.result = NoResult]
      ELSE IF run[h].pc = "done"
      THEN [r EXCEPT !.pc = "create", !.nCreate = 1,
                     !.oldIndexNames = NameSeq(run[h].end)]
      ELSE [r EXCEPT !.pc = "list", !.nList = 1]

\* Variant: every Model works on the collection of the first one.
Collection_Shared(h) == hnd[1].coll

\* model.ts:59  this.collection = db.collection(collectionName)
Collection(h) == hnd[h].coll

\* Variant: a Model reads the list of the latest declaration of its
\* collection on its TypedMongo.
Indexes_Latest(h) ==
  LET S == { g \in 1..alloc : hnd[g].coll = hnd[h].coll /\ hnd[g].tm = hnd[h].tm }
      last == CHOOSE g \in S : \A x \in S : x <= g
  IN  IF S = {} THEN hnd[h].indexes ELSE hnd[last].indexes

\* model.ts:60  this.indexes = options.indexes
Indexes(h) == hnd[h].indexes

\* Variant: the rejection is caught and the indexes the call created are
\* dropped again.
AfterDropRejected_Rollback(s, r) ==
  LET NotCreated(x) == x.name \notin { r.createdIndexNames[i] : i \in 1..Len(r.createdIndexNames) }
  IN  SelectSeq(s, NotCreated)

\* model.ts:116  dropIndex rejected: the call makes no further store call,
\* the collection stays as the rejected dropIndex left it.
AfterDropRejected(s, r) == s

\* model.ts:74-87  the call up to its first await.
BeginRun(h) ==
  LET s == store[Collection(h)]
      r == [IdleRun EXCEPT !.start = s,
                           !.again = (run[h].pc = "done" /\ run[h].end = s)]
  IN  IF EarlyExit(Indexes(h))
      THEN [r EXCEPT !.pc = "done", !.end = s, !.result = NoResult]
      ELSE [r EXCEPT !.pc = "list", !.nList = 1]

Finished(h) == run[h].pc \in {"idle", "done", "failed"}

\* A caller calls model.syncIndexes() on one of its handles.
SyncStart(h) ==
  /\ h <= alloc
  /\ Finished(h)
  /\ nRuns < MaxRuns
  /\ run' = [run EXCEPT ![h] = BeginRun(h)]
  /\ lastRun' = [lastRun EXCEPT ![hnd[h].coll] = h]
  /\ nRuns' = nRuns + 1
  /\ UNCHANGED <<store, hnd, alloc, models, orch, nSyncs>>

\* model.ts:83-96  listIndexes resolves or rejects.
ListIndexes(h) ==
  /\ run[h].pc = "list"
  /\ \E fault \in BOOLEAN :
       LET res == ListIndexesStore(store[Collection(h)], fault)
           r == run[h]
       IN  IF res.ok
           THEN run' = [run EXCEPT ![h] =
                  [r EXCEPT !.pc = "create", !.nCreate = 1,
                            !.oldIndexNames = NameSeq(res.indexes)]]
           ELSE run' = [run EXCEPT ![h] =
                  ListRejected([r EXCEPT !.rejected = [op |-> "list", err |-> res.err]],
                               res.err)]
  /\ UNCHANGED <<store, hnd, alloc, models, orch, nRuns, nSyncs, lastRun>>

\* model.ts:99-118  createIndexes resolves or rejects; on success the diff
\* is computed and the drop loop runs to its first await.
CreateIndexes(h) ==
  /\ run[h].pc = "create"
  /\ \E fault \in BOOLEAN :
       LET c == Collection(h)
           res == CreateIndexesStore(store[c], Indexes(h).list, fault)
           r == run[h]
       IN  IF res.ok
           THEN /\ store' = [store EXCEPT ![c] = res.store]
                /\ run' = [run EXCEPT ![h] =
                     LoopOn([r EXCEPT !.newIndexNames = res.names,
                                      !.toDropIndexNames = ToDropIndexNames(r.oldIndexNames, res.names),
                                      !.createdIndexNames = CreatedIndexNames(r.oldIndexNames, res.names)],
                            1, res.store)]
           ELSE /\ store' = [store EXCEPT ![c] = res.store]
                /\ run' = [run EXCEPT ![h] =
                     CreateRejected([r EXCEPT !.rejected = [op |-> "create", err |-> res.err]],
                                    res.err)]
  /\ UNCHANGED <<hnd, alloc, models, orch, nRuns, nSyncs, lastRun>>

\* model.ts:116-118  dropIndex resolves or rejects.
DropIndex(h) ==
  /\ run[h].pc = "drop"
  /\ \E fault \in BOOLEAN :
       LET c == Collection(h)
           r == run[h]
           indexName == r.toDropIndexNames[r.k]
           res == DropIndexStore(store[c], indexName, fault)
       IN  IF res.ok
           THEN /\ store' = [store EXCEPT ![c] = res.store]
                /\ run' = [run EXCEPT ![h] =
                     LoopOn([r EXCEPT !.droppedIndexNames = Append(r.droppedIndexNames, indexName)],
                            r.k + 1, res.store)]
           ELSE /\ store' = [store EXCEPT ![c] = AfterDropRejected(res.store, r)]
                /\ run' = [run EXCEPT ![h] =
                     DropRejected([r EXCEPT !.rejected = [op |-> "drop", err |-> res.err]],
                                  res.err)]
  /\ UNCHANGED <<hnd, alloc, models, orch, nRuns, nSyncs, lastRun>>

\* ------------------------------------------------------- TypedMongo.model
\* Variant: a re-declared key is deleted and added again, at the end.
MapSet_MoveToEnd(m, key, h) ==
  LET Other(e) == e.key # key
  IN  Append(SelectSeq(m, Other), [key |-> key, h |-> h])

\* Variant: every declaration adds an entry.
MapSet_Append(m, key, h) == Append(m, [key |-> key, h |-> h])

\* index.ts:25  this.models.set(collectionName, model): an existing key
\* keeps its place in the Map's order, a new key goes to the end.
MapSet(m, key, h) ==
  IF \E i \in 1..Len(m) : m[i].key = key
  THEN [i \in 1..Len(m) |-> IF m[i].key = key THEN [key |-> key, h |-> h] ELSE m[i]]
  ELSE Append(m, [key |-> key, h |-> h])

\* Variant: the Map is shared by all TypedMongo instances.
ModelDecl_Shared(t, collectionName, indexes) ==
  /\ alloc + 1 \in H
  /\ alloc' = alloc + 1
  /\ hnd' = [hnd EXCEPT ![alloc + 1] = [coll |-> collectionName, indexes |-> indexes, tm |-> t]]
  /\ models' = [u \in TMs |-> MapSet(models[u], collectionName, alloc + 1)]
  /\ UNCHANGED <<store, run, orch, nRuns, nSyncs, lastRun>>

\* index.ts:20-27
ModelDecl(t, collectionName, indexes) ==
  /\ alloc + 1 \in H
  /\ alloc' = alloc + 1
  /\ hnd' = [hnd EXCEPT ![alloc + 1] = [coll |-> collectionName, indexes |-> indexes, tm |-> t]]
  /\ models' = [models EXCEPT ![t] = MapSet(models[t], collectionName, alloc + 1)]
  /\ UNCHANGED <<store, run, orch, nRuns, nSyncs, lastRun>>

\* ------------------------------------------------- TypedMongo.syncIndexes
\* Variant: the entry is put in front of the list.
PushResult_Front(results, collectionName, result) ==
  <<[collectionName |-> collectionName,
     created |-> result.created, dropped |-> result.dropped]>> \o results

\* index.ts:43-47  results.push({collectionName, created, dropped})
PushResult(results, collectionName, result) ==
  Append(results, [collectionName |-> collectionName,
                   created |-> result.created, dropped |-> result.dropped])

\* Variant: the call on the model after the next one is started as well,
\* without awaiting the next one.
Visit_Eager(t, o, pos) ==
  IF pos > Len(models[t])
  THEN /\ orch' = [orch EXCEPT ![t] =
            [o EXCEPT !.pc = "done", !.pos = pos, !.cur = 0, !.registry = models[t]]]
       /\ run' = run
       /\ lastRun' = lastRun
  ELSE LET h == models[t][pos].h
           g == IF pos < Len(models[t]) THEN models[t][pos + 1].h ELSE h
       IN  /\ Finished(h)
           /\ orch' = [orch EXCEPT ![t] =
                [o EXCEPT !.pc = "await", !.pos = pos, !.cur = h, !.begun = Append(o.begun, h)]]
           /\ run' = [run EXCEPT ![h] = BeginRun(h), ![g] = BeginRun(g)]
           /\ lastRun' = [lastRun EXCEPT ![hnd[h].coll] = h]

\* index.ts:41-50  the iterator of this.models.values() at position pos:
\* call syncIndexes on the next model and await it, or return the results.
Visit(t, o, pos) ==
  IF pos > Len(models[t])
  THEN /\ orch' = [orch EXCEPT ![t] =
            [o EXCEPT !.pc = "done", !.pos = pos, !.cur = 0, !.registry = models[t]]]
       /\ run' = run
       /\ lastRun' = lastRun
  ELSE LET h == models[t][pos].h
       IN  /\ Finished(h)
           /\ orch' = [orch EXCEPT ![t] =
                [o EXCEPT !.pc = "await", !.pos = pos, !.cur = h, !.begun = Append(o.begun, h)]]
           /\ run' = [run EXCEPT ![h] = BeginRun(h)]
           /\ lastRun' = [lastRun EXCEPT ![hnd[h].coll] = h]

\* Variant: the failure of one model is caught and the results gathered so
\* far are returned.
RunFailed_Partial(t, o, h) ==
  /\ orch' = [orch EXCEPT ![t] = [o EXCEPT !.pc = "done", !.cur = 0, !.registry = models[t]]]
  /\ run' = run
  /\ lastRun' = lastRun

\* Variant: the failure of one model is caught and the loop goes on.
RunFailed_Continue(t, o, h) == Visit(t, o, o.pos + 1)

\* index.ts:42  the awaited call rejected: nothing catches, syncIndexes
\* rejects with the same error.
RunFailed(t, o, h) ==
  /\ orch' = [orch EXCEPT ![t] = [o EXCEPT !.pc = "failed", !.err = run[h].err, !.cur = 0]]
  /\ run' = run
  /\ lastRun' = lastRun

\* index.ts:38-42  a caller calls typedMongo.syncIndexes().
TMStart(t) ==
  /\ orch[t].pc \in {"idle", "done", "failed"}
  /\ nSyncs < MaxSyncs
  /\ nSyncs' = nSyncs + 1
  /\ Visit(t, IdleOrch, 1)
  /\ UNCHANGED <<store, hnd, alloc, models, nRuns>>

\* index.ts:42-48  the awaited model.syncIndexes() settles.
TMResume(t) ==
  /\ orch[t].pc = "await"
  /\ LET o == orch[t]
         h == o.cur
     IN  \/ /\ run[h].pc = "done"
            /\ Visit(t, [o EXCEPT !.results = PushResult(o.results, hnd[h].coll, run[h].result),
                                  !.visited = Append(o.visited, h)],
                     o.pos + 1)
         \/ /\ run[h].pc = "failed"
            /\ RunFailed(t, o, h)
  /\ UNCHANGED <<store, hnd, alloc, models, nRuns, nSyncs>>

\* --------------------------------------------------------- specifications
TypeOK ==
  /\ alloc \in 0..Cardinality(H)
  /\ \A c \in Colls : DistinctNames(store[c])
  /\ \A h \in H : run[h].pc \in {"idle", "list", "create", "drop", "done", "failed"}
  /\ \A t \in TMs : orch[t].pc \in {"idle", "await", "done", "failed"}

InitCommon ==
  /\ hnd = [h \in H |-> NoHandle]
  /\ alloc = 0
  /\ models = [t \in TMs |-> <<>>]
  /\ run = [h \in H |-> IdleRun]
  /\ orch = [t \in TMs |-> IdleOrch]
  /\ nRuns = 0
  /\ nSyncs = 0
  /\ lastRun = [c \in Colls |-> 0]

List == \E h \in H : ListIndexes(h)
Create == \E h \in H : CreateIndexes(h)
Drop == \E h \in H : DropIndex(h)

\* Spec: one collection, Model.syncIndexes called directly, one call at a
\* time (single writer).
Init ==
  /\ InitCommon
  /\ \E s \in StoresUpTo(SecondaryDescs, MaxExisting) :
       store = [c \in Colls |-> IF c = "users" THEN s ELSE <<>>]

NoActiveRun == \A h \in H : Finished(h)

Declare ==
  /\ alloc < MaxHandles
  /\ \E indexes \in OrderedOptions(MaxDesired) : ModelDecl(1, "users", indexes)

Start == \E h \in H : NoActiveRun /\ SyncStart(h)

Next == Declare \/ Start \/ List \/ Create \/ Drop

Spec == Init /\ [][Next]_vars

\* SpecTM: two collections, models registered on one TypedMongo and
\* reconciled with TypedMongo.syncIndexes.
InitTM ==
  /\ InitCommon
  /\ store \in [Colls -> StoresUpTo(TMDescs, MaxTMExisting)]

DeclareTM ==
  /\ alloc < MaxModels
  /\ \E c \in Colls, indexes \in OptionsUpTo(TMDescs, MaxTMDesired) : ModelDecl(1, c, indexes)

StartTM == TMStart(1)
ResumeTM == TMResume(1)

NextTM == DeclareTM \/ StartTM \/ ResumeTM \/ List \/ Create \/ Drop

SpecTM == InitTM /\ [][NextTM]_vars

\* SpecInst: two TypedMongo instances on the same database, each with its
\* own declarations and its own syncIndexes calls.
InstStore == <<IdIndex, [name |-> "a_1", shape |-> "plain"]>>
InstOptions == { NoIndexes, [defined |-> TRUE, list |-> <<[name |-> "b_1", shape |-> "plain"]>>] }

InitInst ==
  /\ InitCommon
  /\ store = [c \in Colls |-> InstStore]

DeclareInst ==
  /\ alloc < MaxModels
  /\ \E t \in TMs, c \in Colls, indexes \in InstOptions : ModelDecl(t, c, indexes)

StartInst == \E t \in TMs : TMStart(t)
ResumeInst == \E t \in TMs : TMResume(t)

NextInst == DeclareInst \/ StartInst \/ ResumeInst \/ List \/ Create \/ Drop

SpecInst == InitInst /\ [][NextInst]_vars

\* SpecRace: two TypedMongo instances each register the same collection
\* and Model.syncIndexes is called on both models with no coordination: the
\* calls interleave at their store calls.
InitRace ==
  /\ InitCommon
  /\ \E s \in StoresUpTo(TMDescs, MaxTMExisting) :
       store = [c \in Colls |-> IF c = "users" THEN s ELSE <<>>]

DeclareRace ==
  \E t \in TMs, indexes \in OptionsUpTo(TMDescs, MaxTMDesired) :
    /\ models[t] = <<>>
    /\ ModelDecl(t, "users", indexes)

StartRace == \E h \in H : SyncStart(h)

NextRace == DeclareRace \/ StartRace \/ List \/ Create \/ Drop

SpecRace == InitRace /\ [][NextRace]_vars

\* SpecExt: one writer at a time on a collection that another client of
\* the database changes between the calls.
ExtWrite ==
  /\ NoActiveRun
  /\ store["users"] # <<>>
  /\ \E s \in StoresUpTo(TMDescs, MaxTMExisting) :
       /\ s # <<>>
       /\ s # store["users"]
       /\ store' = [store EXCEPT !["users"] = s]
  /\ lastRun' = [lastRun EXCEPT !["users"] = 0]
  /\ UNCHANGED <<hnd, alloc, models, run, orch, nRuns, nSyncs>>

NextExt == DeclareRace \/ Start \/ ExtWrite \/ List \/ Create \/ Drop

SpecExt == InitRace /\ [][NextExt]_vars

\* SpecTerm: one TypedMongo over two collections, where every store call
\* returns and every settled promise resumes the call awaiting it.
DeclareTerm ==
  /\ alloc < MaxModels
  /\ \E c \in Colls, indexes \in InstOptions : ModelDecl(1, c, indexes)

NextTerm == DeclareTerm \/ StartTM \/ ResumeTM \/ List \/ Create \/ Drop

SpecTerm ==
  /\ InitInst /\ [][NextTerm]_vars
  /\ WF_vars(List) /\ WF_vars(Create) /\ WF_vars(Drop) /\ WF_vars(ResumeTM)

\* SpecRedecl: one TypedMongo on which collections are declared and
\* declared again.
DeclareRedecl ==
  /\ alloc < MaxDecls
  /\ \E c \in Colls, indexes \in InstOptions : ModelDecl(1, c, indexes)

NextRedecl == DeclareRedecl \/ StartTM \/ ResumeTM \/ List \/ Create \/ Drop

SpecRedecl == InitInst /\ [][NextRedecl]_vars

\* SpecAlt: Models declared one after the other for the same collection on
\* one TypedMongo; their syncIndexes calls are made one at a time.
AltDescs ==
  { [name |-> "a_1", shape |-> "plain"], [name |-> "a_1", shape |-> "unique"],
    [name |-> "b_1", shape |-> "plain"] }
AltOptions == { o \in OrderedOptions(MaxDesired) : RangeOf(o.list) \subseteq AltDescs }

InitAlt ==
  /\ InitCommon
  /\ store = [c \in Colls |-> IF c = "users" THEN <<IdIndex>> ELSE <<>>]

DeclareAlt ==
  /\ alloc < MaxModels
  /\ \E indexes \in AltOptions : ModelDecl(1, "users", indexes)

NextAlt == DeclareAlt \/ Start \/ List \/ Create \/ Drop

SpecAlt == InitAlt /\ [][NextAlt]_vars

\* ------------------------------------------------------------- properties
Declared(h) == h <= alloc
CollOf(h) == hnd[h].coll
Desired(h) == hnd[h].indexes.list
NoDesired(h) == ~hnd[h].indexes.defined \/ hnd[h].indexes.list = <<>>
Elems(q) == { q[i] : i \in 1..Len(q) }
\* A call on h that got past the early exit and returned a result.
Completed(h) == Declared(h) /\ ~NoDesired(h) /\ run[h].pc = "done"
\* No call on the collection of h began after the call on h (single writer:
\* nothing but this call has touched the collection since it began).
Latest(h) == lastRun[CollOf(h)] = h

\* C1: a Model.syncIndexes run never issues dropIndex for '_id_' and never
\* reports '_id_' as dropped, whether or not createIndexes returned '_id_';
\* on a collection that had indexes when the run began, '_id_' is in the
\* store in every state during and after the run.
C1_PrimaryKeyNeverDropped ==
  \A h \in H :
    /\ PrimaryKeyIndexName \notin Elems(run[h].dropCalls)
    /\ PrimaryKeyIndexName \notin Elems(run[h].droppedIndexNames)
    /\ PrimaryKeyIndexName \notin Elems(run[h].result.dropped)
    /\ (run[h].pc # "idle" /\ run[h].start # <<>>)
         => PrimaryKeyIndexName \in NamesOf(store[CollOf(h)])

\* C1 witness: a run returned after dropping an index, with '_id_' among
\* the drop candidates (listed, not returned by createIndexes).
C1_Witness ==
  \E h \in H :
    /\ Completed(h)
    /\ PrimaryKeyIndexName \in Elems(run[h].toDropIndexNames)
    /\ Len(run[h].result.dropped) >= 1

\* C2: a run that completes returns created = M \ E and
\* dropped = (E \ M) \ {'_id_'}, E the names listed and M the names
\* createIndexes returned (the names of the indexes at the start of the run
\* and of the declared descriptors).
C2_DiffCorrect ==
  \A h \in H :
    Completed(h) =>
      LET E == Elems(run[h].oldIndexNames)
          M == Elems(run[h].newIndexNames)
      IN  /\ E = NamesOf(run[h].start)
          /\ M = NamesOf(Desired(h))
          /\ Elems(run[h].result.created) = M \ E
          /\ Elems(run[h].result.dropped) = (E \ M) \ {PrimaryKeyIndexName}
          /\ Elems(run[h].result.dropped) \subseteq E \ M

\* C2 witness: a completed run that kept one secondary index, created one
\* and dropped one.
C2_Witness ==
  \E h \in H :
    /\ Completed(h)
    /\ Len(run[h].result.created) = 1
    /\ Len(run[h].result.dropped) = 1
    /\ (Elems(run[h].oldIndexNames) \cap Elems(run[h].newIndexNames)) \ {PrimaryKeyIndexName} # {}

\* C3: after a run with a non-empty desired list completes (single writer),
\* the index names in the store are the materialized names and '_id_':
\* every desired index exists, no other secondary index remains.
C3_Convergence ==
  \A h \in H :
    (Completed(h) /\ Latest(h)) =>
      /\ NamesOf(store[CollOf(h)]) = Elems(run[h].newIndexNames) \cup {PrimaryKeyIndexName}
      /\ Elems(Desired(h)) \subseteq RangeOf(store[CollOf(h)])

\* C3 witness: a completed run that had two obsolete indexes to remove and
\* one index to create.
C3_Witness ==
  \E h \in H :
    /\ Completed(h) /\ Latest(h)
    /\ Len(run[h].result.dropped) = 2
    /\ Len(run[h].result.created) = 1

\* C4: a second call in a row on the same handle (the first one completed,
\* the collection is as the first call left it) returns created = [] and
\* dropped = [], issues no dropIndex and leaves the index set unchanged.
C4_Idempotence ==
  \A h \in H :
    (Completed(h) /\ run[h].again) =>
      /\ run[h].result = NoResult
      /\ run[h].dropCalls = <<>>
      /\ run[h].end = run[h].start
      /\ Latest(h) => store[CollOf(h)] = run[h].start

\* C4 witness: the second of two completed calls in a row, on a collection
\* that holds a secondary index.
C4_Witness ==
  \E h \in H : Completed(h) /\ run[h].again /\ Latest(h) /\ Len(run[h].start) >= 2

C6_EmptyArrayDropsAll ==
  \A h \in H :
    (Declared(h) /\ hnd[h].indexes.defined /\ Desired(h) = <<>> /\ run[h].pc = "done") =>
      /\ Elems(run[h].result.dropped) = NamesOf(run[h].start) \ {PrimaryKeyIndexName}
      /\ run[h].result.created = <<>>
      /\ NamesOf(store[CollOf(h)]) \subseteq {PrimaryKeyIndexName}

\* C7: when listIndexes fails with NamespaceNotFound the call does not
\* fail: it goes on to createIndexes with an empty existing set.
C7_NewCollectionBaseline ==
  \A h \in H :
    (run[h].rejected = [op |-> "list", err |-> "NamespaceNotFound"]) =>
      /\ run[h].pc # "failed"
      /\ run[h].nCreate = 1
      /\ run[h].pc = "done" =>
           /\ run[h].result.created = run[h].newIndexNames
           /\ run[h].result.dropped = <<>>

DropSequence(h) ==
  LET NotPrimary(n) == n # PrimaryKeyIndexName
  IN  SelectSeq(run[h].toDropIndexNames, NotPrimary)

\* C9: when dropIndex fails for the k-th name of the drop sequence the call
\* stops: no further dropIndex, it rejects with the error and no result;
\* the names before position k stay dropped, the names from k on stay.
C9_DropFailure ==
  \A h \in H :
    (run[h].rejected.op = "drop") =>
      LET k == Len(run[h].dropCalls)
          seq == DropSequence(h)
      IN  /\ run[h].pc = "failed"
          /\ run[h].err = run[h].rejected.err
          /\ run[h].result = NoResult
          /\ run[h].dropCalls = SubSeq(seq, 1, k)
          /\ Latest(h) =>
               /\ \A j \in 1..(k - 1) : seq[j] \notin NamesOf(store[CollOf(h)])
               /\ \A j \in k..Len(seq) : seq[j] \in NamesOf(store[CollOf(h)])

\* C9 witness: the second of three drops failed.
C9_Witness ==
  \E h \in H :
    /\ run[h].rejected.op = "drop" /\ Latest(h)
    /\ Len(run[h].dropCalls) = 2
    /\ Len(DropSequence(h)) = 3

DeclsOf(t, n) == { g \in 1..n : hnd[g].tm = t }
LatestDecl(t, c, n) ==
  LET S == { g \in DeclsOf(t, n) : hnd[g].coll = c }
  IN  IF S = {} THEN 0 ELSE CHOOSE g \in S : \A x \in S : x <= g
InFlight(h) == run[h].pc \in {"list", "create", "drop"}

\* The model a TypedMongo.syncIndexes call began in this step, if any.
Begins(t, h) ==
  /\ orch'[t].begun # orch[t].begun
  /\ orch'[t].begun # <<>>
  /\ h = orch'[t].begun[Len(orch'[t].begun)]

C11_Registry ==
  \A t \in TMs :
    /\ \A i, j \in 1..Len(models[t]) : models[t][i].key = models[t][j].key => i = j
    /\ \A i \in 1..Len(models[t]) :
         models[t][i].h = LatestDecl(t, models[t][i].key, alloc)
    /\ \A i, j \in 1..Len(orch[t].begun) :
         CollOf(orch[t].begun[i]) = CollOf(orch[t].begun[j]) => i = j
    /\ orch[t].pc = "done" =>
         LET o == orch[t]
         IN  /\ \A i, j \in 1..Len(o.results) :
                  o.results[i].collectionName = o.results[j].collectionName => i = j
             /\ o.visited = o.begun
             /\ \A i \in 1..Len(o.registry) :
                  \E j \in 1..Len(o.results) :
                    /\ o.results[j].collectionName = o.registry[i].key
                    /\ j <= Len(o.visited)
                    /\ CollOf(o.visited[j]) = o.registry[i].key
                    /\ Elems(o.results[j].created) \subseteq NamesOf(Desired(o.visited[j]))

C11_BeginsLatest ==
  \A t \in TMs, h \in H :
    Begins(t, h) => h = LatestDecl(t, CollOf(h), alloc)

\* C11: last declaration wins: the registry holds one entry per collection
\* name, the most recent declaration of that name; TypedMongo.syncIndexes
\* calls a collection's model once, the model it calls is the most recent
\* declaration of its collection, and a completed call has exactly one
\* entry per collection name.
C11_LastDeclarationWins == [](C11_Registry) /\ [][C11_BeginsLatest]_vars

\* C11 witness: a collection declared twice with different index lists, then
\* a completed syncIndexes with one entry, made from the second declaration.
C11_Witness ==
  \E t \in TMs :
    /\ orch[t].pc = "done"
    /\ Len(orch[t].results) = 1
    /\ alloc = 2
    /\ hnd[1].tm = t /\ hnd[2].tm = t /\ hnd[1].coll = hnd[2].coll
    /\ ~NoDesired(1) /\ ~NoDesired(2) /\ Desired(1) # Desired(2)
    /\ run[1].pc = "idle"
    /\ orch[t].visited = <<2>>
    /\ orch[t].results[1].created = NameSeq(Desired(2))

C12_Stops ==
  \A t \in TMs :
    LET o == orch[t]
    IN  \A k \in 1..Len(o.begun) :
          run[o.begun[k]].pc = "failed" =>
            /\ k = Len(o.begun) /\ k = o.pos
            /\ o.pc \in {"await", "failed"}
            /\ o.pc = "failed" => o.err = run[o.begun[k]].err
            /\ \A i \in (k + 1)..Len(models[t]) :
                 /\ models[t][i].h \notin Elems(o.begun)
                 /\ ~InFlight(models[t][i].h)

\* A collection's indexes change only by a store call of the model that
\* the syncIndexes call is awaiting, the last one it began.
C12_OnlyAwaitedChanges ==
  \A c \in Colls :
    store'[c] # store[c] =>
      \E t \in TMs :
        /\ orch[t].pc = "await"
        /\ CollOf(orch[t].cur) = c
        /\ orch[t].cur = orch[t].begun[Len(orch[t].begun)]
        /\ InFlight(orch[t].cur)

\* C12: fail-fast: when the call on the k-th registered collection fails,
\* TypedMongo.syncIndexes rejects with that error and no call is made on any
\* collection registered after the k-th, whose indexes stay as they were.
C12_FailFast == [](C12_Stops) /\ [][C12_OnlyAwaitedChanges]_vars

\* C12 witness: the call failed on the first of two registered collections;
\* the second has an index its declaration does not name.
C12_Witness ==
  \E t \in TMs :
    /\ orch[t].pc = "failed"
    /\ orch[t].pos = 1
    /\ Len(models[t]) = 2
    /\ ~NoDesired(models[t][2].h)
    /\ Len(store[models[t][2].key]) = 2
    /\ NamesOf(store[models[t][2].key]) \cap NamesOf(Desired(models[t][2].h)) = {}

\* C17: within one TypedMongo.syncIndexes call the collections are
\* reconciled one after the other: at most one store call of the call is in
\* flight, on the model being awaited, and every model begun earlier has
\* settled.
C17_Sequential ==
  \A t \in TMs :
    LET o == orch[t]
        inflight == { h \in DeclsOf(t, alloc) : InFlight(h) }
    IN  /\ Cardinality(inflight) <= 1
        /\ inflight # {} => (o.pc = "await" /\ inflight = {o.cur})
        /\ \A i \in 1..(Len(o.begun) - 1) : run[o.begun[i]].pc = "done"
        /\ o.visited = SubSeq(o.begun, 1, Len(o.visited))

\* C17 witness: the second collection is being dropped from while the first
\* one, which made store calls, has returned.
C17_Witness ==
  \E t \in TMs :
    /\ orch[t].pc = "await"
    /\ Len(orch[t].begun) = 2
    /\ run[orch[t].begun[1]].nCreate = 1
    /\ run[orch[t].cur].pc = "drop"

\* C13: when listIndexes fails with an error other than collection-not-found
\* the call rejects with that same error, after its one listIndexes call
\* (no retry), with no createIndexes and no dropIndex call; the store's
\* indexes are as they were when the call began.
C13_ListFailure ==
  \A h \in H :
    (run[h].rejected.op = "list" /\ run[h].rejected.err # "NamespaceNotFound") =>
      /\ run[h].pc = "failed"
      /\ run[h].err = run[h].rejected.err
      /\ run[h].result = NoResult
      /\ run[h].nList = 1
      /\ run[h].nCreate = 0
      /\ run[h].dropCalls = <<>>
      /\ Latest(h) => store[CollOf(h)] = run[h].start

\* C13 witness: listIndexes was rejected with a store error on a collection
\* that holds an index the desired list does not name, and the desired list
\* names an index the collection does not hold.
C13_Witness ==
  \E h \in H :
    /\ run[h].rejected = [op |-> "list", err |-> "StoreError"] /\ Latest(h)
    /\ NamesOf(run[h].start) \ (NamesOf(Desired(h)) \cup {PrimaryKeyIndexName}) # {}
    /\ NamesOf(Desired(h)) \ NamesOf(run[h].start) # {}

\* A store call of the call on h was rejected with an error other than the
\* collection-not-found of listIndexes.
NonRecovered(h) ==
  /\ run[h].rejected.op # ""
  /\ run[h].rejected # [op |-> "list", err |-> "NamespaceNotFound"]

C16_Order ==
  \A h \in H :
    (Declared(h) /\ ~NoDesired(h) /\ run[h].pc # "idle") =>
      /\ run[h].nList = 1
      /\ run[h].nCreate <= 1
      /\ run[h].pc = "list" => (run[h].nCreate = 0 /\ run[h].dropCalls = <<>>)
      /\ run[h].pc = "create" => (run[h].nCreate = 1 /\ run[h].dropCalls = <<>>)
      /\ run[h].dropCalls # <<>> => run[h].nCreate = 1
      /\ run[h].rejected.op = "list" => (run[h].nCreate = 0 /\ run[h].dropCalls = <<>>)
      /\ run[h].rejected.op = "create" => run[h].dropCalls = <<>>
      /\ NonRecovered(h) => run[h].pc = "failed"

C16_Step ==
  \A h \in H :
    \* createIndexes is issued in the step in which listIndexes resolves
    /\ run'[h].nCreate > run[h].nCreate =>
         (run[h].pc = "list" /\ run'[h].rejected.op = "")
    \* a dropIndex is issued in the step in which createIndexes or the
    \* dropIndex before it resolves
    /\ Len(run'[h].dropCalls) > Len(run[h].dropCalls) =>
         /\ run[h].pc \in {"create", "drop"}
         /\ run'[h].rejected.op = ""
         /\ Len(run'[h].dropCalls) = Len(run[h].dropCalls) + 1
         /\ run[h].pc = "drop" => Len(run'[h].droppedIndexNames) = Len(run[h].dropCalls)
    \* after a failure nothing happens in the call
    /\ (NonRecovered(h) /\ nRuns' = nRuns) => run'[h] = run[h]

\* C16: in a call with a non-empty desired list, one listIndexes resolves
\* before the one createIndexes is issued, createIndexes resolves before any
\* dropIndex is issued, and once a store call failed with a non-recovered
\* error the call issues no further store call.
C16_StoreCallOrder == [](C16_Order) /\ [][C16_Step]_vars

\* C16 witness: a call that created an index and dropped one had its second
\* dropIndex rejected.
C16_Witness ==
  \E h \in H :
    /\ run[h].rejected.op = "drop"
    /\ Len(run[h].createdIndexNames) = 1
    /\ Len(run[h].droppedIndexNames) = 1
    /\ Len(run[h].dropCalls) = 2

\* C18: created is the list createIndexes returned, in its order, without
\* the names of the listing; dropped is the listing, in its order, without
\* the names createIndexes returned and without '_id_'; the dropIndex calls
\* are issued one at a time, in that order.
C18_ResultOrder ==
  \A h \in H :
    (Declared(h) /\ ~NoDesired(h)) =>
      LET old == run[h].oldIndexNames
          new == run[h].newIndexNames
          NotListed(n) == n \notin Elems(old)
          NotReturned(n) == n \notin Elems(new) /\ n # PrimaryKeyIndexName
          toCreate == SelectSeq(new, NotListed)
          toDrop == SelectSeq(old, NotReturned)
          calls == run[h].dropCalls
          acked == run[h].droppedIndexNames
      IN  /\ run[h].pc \in {"drop", "done"} =>
               /\ old = NameSeq(run[h].start)
               /\ new = NameSeq(Desired(h))
               /\ calls = SubSeq(toDrop, 1, Len(calls))
          /\ acked = SubSeq(calls, 1, Len(acked))
          /\ Len(calls) - Len(acked) \in {0, 1}
          /\ Len(calls) - Len(acked) = 1 <=> (run[h].pc = "drop" \/ run[h].rejected.op = "drop")
          /\ run[h].pc = "done" =>
               /\ run[h].result.created = toCreate
               /\ run[h].result.dropped = toDrop
               /\ calls = toDrop

\* C18 witness: a completed call that created one index and dropped two,
\* on a collection that listed c_1 before b_1.
C18_Witness ==
  \E h \in H :
    /\ Completed(h)
    /\ run[h].result.created = <<"a_1">>
    /\ run[h].result.dropped = <<"c_1", "b_1">>

\* C19: with one writer per collection, the name of every dropIndex call is
\* in the store when the call is made and until it resolves, it comes from
\* the listing of the same call, no name is passed twice, and dropIndex is
\* never rejected for a missing name.
C19_DropTargetsExist ==
  \A h \in H :
    LET calls == run[h].dropCalls
    IN  /\ Elems(calls) \subseteq Elems(run[h].oldIndexNames)
        /\ \A i, j \in 1..Len(calls) : calls[i] = calls[j] => i = j
        /\ run[h].pc = "drop" =>
             /\ Latest(h)
             /\ calls[Len(calls)] = run[h].toDropIndexNames[run[h].k]
             /\ calls[Len(calls)] \in NamesOf(store[CollOf(h)])
             /\ calls[Len(calls)] \in NamesOf(run[h].start)
        /\ run[h].rejected.op = "drop" => run[h].rejected.err # "IndexNotFound"

\* C19 witness: the second dropIndex of a call is in flight, after the call
\* created an index and dropped one.
C19_Witness ==
  \E h \in H :
    /\ run[h].pc = "drop"
    /\ Len(run[h].dropCalls) = 2
    /\ Len(run[h].droppedIndexNames) = 1
    /\ run[h].createdIndexNames # <<>>

\* C20: minimality: an index that the collection held when the call began
\* and whose name is in the desired list gets no dropIndex and is in the
\* store, unchanged, in every state of the call and after it; no name gets
\* more than one dropIndex in a call.
C20_Minimality ==
  \A h \in H :
    (Declared(h) /\ ~NoDesired(h) /\ run[h].pc # "idle") =>
      /\ \A i \in 1..Len(run[h].start) :
           LET x == run[h].start[i]
           IN  x.name \in NamesOf(Desired(h)) =>
                 /\ x.name \notin Elems(run[h].dropCalls)
                 /\ x.name \notin Elems(run[h].result.dropped)
                 /\ x.name \notin Elems(run[h].result.created)
                 /\ Latest(h) => x \in RangeOf(store[CollOf(h)])
      /\ Cardinality(Elems(run[h].dropCalls)) = Len(run[h].dropCalls)

\* C20 witness: a dropIndex is in flight in a call that keeps one secondary
\* index of the collection and created another.
C20_Witness ==
  \E h \in H :
    /\ run[h].pc = "drop" /\ Latest(h)
    /\ run[h].createdIndexNames # <<>>
    /\ \E i \in 1..Len(run[h].start) :
         /\ run[h].start[i].name # PrimaryKeyIndexName
         /\ run[h].start[i] \in Elems(Desired(h))
         /\ run[h].start[i] \in RangeOf(store[CollOf(h)])

\* The first declaration of collection c on TypedMongo t (0: none).
FirstDecl(t, c) ==
  LET S == { g \in DeclsOf(t, alloc) : hnd[g].coll = c }
  IN  IF S = {} THEN 0 ELSE CHOOSE g \in S : \A x \in S : g <= x

C14_Bindings ==
  \A t \in TMs :
    LET m == models[t]
    IN  \* the registry of t is made of the declarations on t alone
        /\ { m[i].key : i \in 1..Len(m) } = { hnd[g].coll : g \in DeclsOf(t, alloc) }
        /\ \A i \in 1..Len(m) :
             /\ hnd[m[i].h].tm = t
             /\ m[i].h = LatestDecl(t, m[i].key, alloc)
        /\ \A i, j \in 1..Len(m) :
             i < j => FirstDecl(t, m[i].key) < FirstDecl(t, m[j].key)
        \* a syncIndexes call on t calls models of t only, and reports
        \* collections registered on t only
        /\ \A k \in 1..Len(orch[t].begun) : hnd[orch[t].begun[k]].tm = t
        /\ \A k \in 1..Len(orch[t].results) :
             /\ FirstDecl(t, orch[t].results[k].collectionName) > 0
             /\ CollOf(orch[t].begun[k]) = orch[t].results[k].collectionName
        /\ orch[t].pc = "done" =>
             { orch[t].results[k].collectionName : k \in 1..Len(orch[t].results) }
               = { orch[t].registry[i].key : i \in 1..Len(orch[t].registry) }

C14_Frame ==
  \A t \in TMs :
    \* a declaration on another instance leaves the registry of t as it is
    /\ (alloc' = alloc + 1 /\ hnd'[alloc + 1].tm # t) => models'[t] = models[t]
    \* a store call changes a collection only on behalf of an instance that
    \* registered it
    /\ \A c \in Colls :
         store'[c] # store[c] =>
           \E u \in TMs : orch[u].pc = "await" /\ CollOf(orch[u].cur) = c
                          /\ hnd[orch[u].cur].tm = u /\ FirstDecl(u, c) > 0

\* C14: each TypedMongo has its own registry: its bindings are the
\* declarations made on it, in their order, whatever is declared on another
\* instance; its syncIndexes calls the models of its own registry only and
\* reports only collections registered on it.
C14_OwnRegistry == [](C14_Bindings) /\ [][C14_Frame]_vars

\* C14 witness: two instances registered different collections; one
\* completed syncIndexes and reports its collection only, the collection of
\* the other still holds an index its declaration does not name.
C14_Witness ==
  \E t, u \in TMs :
    /\ t # u
    /\ orch[t].pc = "done"
    /\ Len(orch[t].results) = 1
    /\ Len(orch[t].results[1].dropped) = 1
    /\ Len(models[u]) = 1
    /\ models[u][1].key # orch[t].results[1].collectionName
    /\ ~NoDesired(models[u][1].h)
    /\ store[models[u][1].key] = InstStore

\* The dropIndex of the call on h was rejected because the index is missing.
MissingDrop(r) == r.rejected = [op |-> "drop", err |-> "IndexNotFound"]

C15_Fails ==
  \A h \in H :
    MissingDrop(run[h]) =>
      LET name == run[h].dropCalls[Len(run[h].dropCalls)]
      IN  /\ run[h].pc = "failed"
          /\ run[h].err = "IndexNotFound"
          /\ run[h].result = NoResult
          /\ name \in Elems(run[h].oldIndexNames)
          /\ name \notin NamesOf(Desired(h))

C15_Step ==
  \A h \in H :
    (MissingDrop(run'[h]) /\ ~MissingDrop(run[h])) =>
      LET name == run[h].dropCalls[Len(run[h].dropCalls)]
      IN  /\ run[h].pc = "drop"
          /\ name \notin NamesOf(store[CollOf(h)])
          /\ \E g \in H : g # h /\ Declared(g) /\ CollOf(g) = CollOf(h)
                          /\ hnd[g].tm # hnd[h].tm /\ run[g].pc # "idle"

\* C15: calls on the same collection from two instances are not
\* coordinated: a call whose dropIndex targets a name that another call has
\* removed since the listing fails with the store's error; the name was in
\* its own listing and a model of another instance has run on the
\* collection. The witness is such a state with two equal desired lists.
C15_UncoordinatedDrop == [](C15_Fails) /\ [][C15_Step]_vars

\* C15 witness: two models with the same desired list both listed the same
\* obsolete index; one dropped it and completed, the dropIndex of the other
\* found it missing and the call failed.
C15_Witness ==
  \E h, g \in H :
    /\ h # g /\ Declared(h) /\ Declared(g)
    /\ CollOf(h) = CollOf(g) /\ Desired(h) = Desired(g)
    /\ MissingDrop(run[h]) /\ run[h].pc = "failed"
    /\ run[g].pc = "done"
    /\ LET name == run[h].dropCalls[Len(run[h].dropCalls)]
       IN  /\ name \in Elems(run[g].oldIndexNames)
           /\ name \in Elems(run[h].oldIndexNames)
           /\ name \in Elems(run[g].result.dropped)

\* C21: nothing is cached across calls: a call with a non-empty desired
\* list lists the indexes the collection holds when it is made; after a
\* completed call, the next completed call with the same desired list drops
\* and reports the names added since by another client and creates and
\* reports the names removed since.
C21_FreshSnapshot ==
  \A h \in H :
    (Declared(h) /\ ~NoDesired(h)) =>
      /\ run[h].pc \in {"create", "drop", "done"} =>
           (run[h].nList = 1 /\ run[h].oldIndexNames = NameSeq(run[h].start))
      /\ \A g \in H \ {h} :
           (Completed(g) /\ Completed(h) /\ Latest(h)
              /\ CollOf(g) = CollOf(h) /\ Desired(g) = Desired(h)) =>
             /\ Elems(run[h].result.dropped) = NamesOf(run[h].start) \ NamesOf(run[g].end)
             /\ Elems(run[h].result.created) = NamesOf(run[g].end) \ NamesOf(run[h].start)

\* C21 witness: between two completed calls with the same desired list
\* another client removed the desired index and added an undesired one; the
\* second call reports one created and one dropped.
C21_Witness ==
  \E h, g \in H :
    /\ h # g /\ Completed(g) /\ Completed(h) /\ Latest(h)
    /\ Desired(g) = Desired(h)
    /\ Len(run[h].result.created) = 1
    /\ Len(run[h].result.dropped) = 1
    /\ run[h].result.created[1] \in NamesOf(run[g].end)
    /\ run[h].result.dropped[1] \notin NamesOf(run[g].end)

\* C22: when TypedMongo.syncIndexes fails at the k-th registered collection,
\* the call rejects with the error and returns no results; the collections
\* 1..k-1 are as their completed calls left them, creates and drops applied.
C22_NoRollback ==
  \A t \in TMs :
    LET o == orch[t]
    IN  /\ \A i \in 1..Len(o.visited) :
             /\ run[o.visited[i]].pc = "done"
             /\ store[CollOf(o.visited[i])] = run[o.visited[i]].end
             /\ ~NoDesired(o.visited[i]) =>
                  /\ NamesOf(store[CollOf(o.visited[i])])
                       = NamesOf(Desired(o.visited[i])) \cup {PrimaryKeyIndexName}
                  /\ Elems(run[o.visited[i]].result.dropped)
                       \cap NamesOf(store[CollOf(o.visited[i])]) = {}
        /\ \A k \in 1..Len(o.begun) :
             (run[o.begun[k]].pc = "failed" /\ o.pc # "await") =>
               /\ o.pc = "failed"
               /\ o.err = run[o.begun[k]].err
               /\ Len(o.visited) = k - 1

\* C22 witness: the call failed at the second collection after the call on
\* the first created one index and dropped one.
C22_Witness ==
  \E t \in TMs :
    /\ orch[t].pc = "failed"
    /\ Len(orch[t].visited) = 1
    /\ Len(orch[t].results) = 1
    /\ Len(orch[t].results[1].created) = 1
    /\ Len(orch[t].results[1].dropped) = 1
    /\ orch[t].results[1].created[1] \in NamesOf(store[orch[t].results[1].collectionName])
    /\ orch[t].results[1].dropped[1] \notin NamesOf(store[orch[t].results[1].collectionName])

\* The position of collection c in the registry of t (0: not registered).
PositionOf(m, c) ==
  IF \E i \in 1..Len(m) : m[i].key = c
  THEN CHOOSE i \in 1..Len(m) : m[i].key = c
  ELSE 0

C23_Order ==
  \A t \in TMs :
    /\ \A i, j \in 1..Len(models[t]) :
         i < j => FirstDecl(t, models[t][i].key) < FirstDecl(t, models[t][j].key)
    /\ \A i \in 1..Len(models[t]) :
         models[t][i].h = LatestDecl(t, models[t][i].key, alloc)
    /\ orch[t].pc = "done" =>
         /\ \A i, j \in 1..Len(orch[t].results) :
              i < j => FirstDecl(t, orch[t].results[i].collectionName)
                         < FirstDecl(t, orch[t].results[j].collectionName)
         /\ \A i \in 1..Len(orch[t].results) :
              Elems(orch[t].results[i].created) \subseteq NamesOf(Desired(orch[t].visited[i]))

C23_Redeclare ==
  \A t \in TMs, c \in Colls :
    (alloc' = alloc + 1 /\ hnd'[alloc + 1].tm = t /\ hnd'[alloc + 1].coll = c
       /\ PositionOf(models[t], c) > 0) =>
      /\ Len(models'[t]) = Len(models[t])
      /\ \A i \in 1..Len(models[t]) :
           IF i = PositionOf(models[t], c)
           THEN models'[t][i] = [key |-> c, h |-> alloc + 1]
           ELSE models'[t][i] = models[t][i]

\* C23: declaring a registered collection name again replaces its model
\* (its desired list) and keeps it at the position of its first
\* registration, in the registry and in the results of syncIndexes.
C23_RedeclareKeepsPlace == [](C23_Order) /\ [][C23_Redeclare]_vars

\* C23 witness: a collection was declared, then another, then the first
\* again with another list; syncIndexes reports the first collection first,
\* with the result of its second declaration.
C23_Witness ==
  \E t \in TMs :
    /\ alloc = 3
    /\ hnd[1].coll = hnd[3].coll /\ hnd[1].coll # hnd[2].coll
    /\ hnd[1].indexes # hnd[3].indexes /\ ~NoDesired(3)
    /\ orch[t].pc = "done"
    /\ Len(orch[t].results) = 2
    /\ orch[t].visited = <<3, 2>>
    /\ orch[t].results[1].collectionName = hnd[1].coll
    /\ orch[t].results[1].created = NameSeq(Desired(3))

\* C24: in a call, no name is both created and dropped, and no name passed
\* to dropIndex or reported as dropped is in the list createIndexes returned.
C24_Disjoint ==
  \A h \in H :
    /\ Elems(run[h].createdIndexNames) \cap Elems(run[h].droppedIndexNames) = {}
    /\ Elems(run[h].createdIndexNames) \cap Elems(run[h].dropCalls) = {}
    /\ Elems(run[h].result.created) \cap Elems(run[h].result.dropped) = {}
    /\ Elems(run[h].dropCalls) \cap Elems(run[h].newIndexNames) = {}
    /\ Elems(run[h].result.dropped) \cap Elems(run[h].newIndexNames) = {}

\* C24 witness: a completed call that created two indexes, kept none and
\* dropped one.
C24_Witness ==
  \E h \in H :
    /\ Completed(h)
    /\ Len(run[h].result.created) = 2
    /\ Len(run[h].result.dropped) = 1
    /\ Len(run[h].start) = 2

\* C25: when a dropIndex of a call is rejected, the indexes createIndexes
\* made stay: every desired index is in the store after the failed call,
\* and the caller got the error, not a created list.
C25_CreatedStay ==
  \A h \in H :
    (run[h].rejected.op = "drop") =>
      /\ run[h].pc = "failed"
      /\ run[h].result = NoResult
      /\ Latest(h) =>
           /\ Elems(Desired(h)) \subseteq RangeOf(store[CollOf(h)])
           /\ Elems(run[h].createdIndexNames) \subseteq NamesOf(store[CollOf(h)])

\* C25 witness: the first dropIndex was rejected in a call that had created
\* two indexes.
C25_Witness ==
  \E h \in H :
    /\ run[h].rejected.op = "drop" /\ Latest(h)
    /\ Len(run[h].createdIndexNames) = 2
    /\ run[h].droppedIndexNames = <<>>

\* The names the call on g had still to drop when its dropIndex was
\* rejected, and the index names it left in the collection.
PendingDrops(g) ==
  Elems(run[g].toDropIndexNames)
    \ ({PrimaryKeyIndexName} \cup Elems(run[g].droppedIndexNames))
LeftBy(g) ==
  (NamesOf(run[g].start) \cup NamesOf(Desired(g))) \ Elems(run[g].droppedIndexNames)

C27_Untouched ==
  \A c \in Colls : lastRun[c] = 0 => store[c] = InstStore

C27_Step ==
  \A c \in Colls :
    store'[c] # store[c] =>
      \E h \in H :
        /\ InFlight(h) /\ CollOf(h) = c
        /\ run'[h] # run[h]
        /\ \A g \in H \ {h} : run'[g] = run[g]
        /\ \A d \in Colls \ {c} : store'[d] = store[d]

\* C27: a Model.syncIndexes call makes its store calls on its own
\* collection only: a step that changes the indexes of a collection is a
\* step of a call in flight on that collection and changes no other
\* collection; a collection on which no call was made keeps its indexes.
C27_OwnCollection == [](C27_Untouched) /\ [][C27_Step]_vars

\* C27 witness: a call on one collection created an index and then failed;
\* the other collection, declared with a list its indexes do not match and
\* never reconciled, holds its initial indexes.
C27_Witness ==
  \E h, g \in H :
    /\ Declared(h) /\ Declared(g) /\ CollOf(g) # CollOf(h)
    /\ run[h].pc = "failed" /\ run[h].createdIndexNames # <<>>
    /\ ~NoDesired(g)
    /\ lastRun[CollOf(g)] = 0
    /\ store[CollOf(g)] = InstStore
    /\ store[CollOf(h)] # InstStore

\* The call on h completed on the collection as the completed call on the
\* other handle g left it; both handles have a non-empty desired list.
Follows(h, g) ==
  /\ g # h /\ Declared(g) /\ Declared(h)
  /\ CollOf(g) = CollOf(h) /\ hnd[g].tm = hnd[h].tm
  /\ Completed(g) /\ Completed(h) /\ Latest(h)
  /\ run[h].start = run[g].end

\* C28 as stated: with two different non-empty desired lists, every call
\* that follows a call of the other handle reports a non-empty created and
\* a non-empty dropped.
C28_AlwaysBoth ==
  \A g, h \in H :
    (Follows(h, g) /\ Desired(g) # Desired(h)) =>
      /\ run[h].result.created # <<>>
      /\ run[h].result.dropped # <<>>

\* C28, amended: a handle keeps its own desired list after it is superseded
\* in the registry; a call that follows a call of the other handle creates
\* the names only its own list has and drops the names only the other list
\* has, so when each list has a name the other lacks every such call
\* reports a non-empty created and a non-empty dropped and changes the
\* collection.
C28_Alternation ==
  \A g, h \in H :
    Follows(h, g) =>
      LET Mh == NamesOf(Desired(h))
          Mg == NamesOf(Desired(g))
      IN  /\ Elems(run[h].newIndexNames) = Mh
          /\ Elems(run[h].result.created) = Mh \ Mg
          /\ Elems(run[h].result.dropped) = Mg \ Mh
          /\ (Mh \ Mg # {} /\ Mg \ Mh # {}) =>
               /\ run[h].result.created # <<>>
               /\ run[h].result.dropped # <<>>
               /\ run[h].end # run[g].end

\* C28 witness: the superseded handle ran after the handle that superseded
\* it, their lists naming different indexes: it dropped the other's index
\* and created its own.
C28_Witness ==
  \E g, h \in H :
    /\ Follows(h, g) /\ h < g
    /\ Len(models[hnd[h].tm]) = 1 /\ models[hnd[h].tm][1].h = g
    /\ NamesOf(Desired(h)) \cap NamesOf(Desired(g)) = {}
    /\ Len(run[h].result.created) = 1
    /\ Len(run[h].result.dropped) = 1

\* C29: in every interleaving of calls on one collection '_id_' is never
\* passed to dropIndex nor reported as dropped and stays in the collection;
\* when the calls of two handles have both completed, the collection holds
\* '_id_' and names of the two desired lists only. The witness is a state in
\* which both completed without error and the index set is neither call's
\* desired set with '_id_'.
C29_Interleaved ==
  /\ \A c \in Colls : store[c] # <<>> => PrimaryKeyIndexName \in NamesOf(store[c])
  /\ \A h \in H :
       /\ PrimaryKeyIndexName \notin Elems(run[h].dropCalls)
       /\ PrimaryKeyIndexName \notin Elems(run[h].droppedIndexNames)
       /\ PrimaryKeyIndexName \notin Elems(run[h].result.dropped)
  /\ \A g, h \in H :
       (g # h /\ Completed(g) /\ Completed(h) /\ CollOf(g) = CollOf(h)) =>
         NamesOf(store[CollOf(h)])
           \subseteq NamesOf(Desired(g)) \cup NamesOf(Desired(h)) \cup {PrimaryKeyIndexName}

\* C29 witness: two calls with different desired lists interleaved and both
\* completed with no rejected store call; the collection holds the indexes
\* of both lists.
C29_Witness ==
  \E g, h \in H :
    /\ g # h /\ Completed(g) /\ Completed(h) /\ CollOf(g) = CollOf(h)
    /\ run[g].rejected.op = "" /\ run[h].rejected.op = ""
    /\ NamesOf(Desired(g)) # NamesOf(Desired(h))
    /\ NamesOf(store[CollOf(h)]) # NamesOf(Desired(g)) \cup {PrimaryKeyIndexName}
    /\ NamesOf(store[CollOf(h)]) # NamesOf(Desired(h)) \cup {PrimaryKeyIndexName}
    /\ PrimaryKeyIndexName \in Elems(run[g].toDropIndexNames)
    /\ PrimaryKeyIndexName \in Elems(run[h].toDropIndexNames)

C30_Bounds ==
  /\ \A h \in H :
       /\ run[h].nList <= 1
       /\ run[h].nCreate <= 1
       /\ Len(run[h].dropCalls) <= Len(run[h].oldIndexNames)
       /\ Len(run[h].dropCalls) <= Len(run[h].toDropIndexNames)
  /\ \A t \in TMs :
       /\ Len(orch[t].begun) <= Len(models[t])
       /\ \A i, j \in 1..Len(orch[t].begun) :
            CollOf(orch[t].begun[i]) = CollOf(orch[t].begun[j]) => i = j

\* C30: termination: when every store call returns, a Model.syncIndexes call
\* ends, with a result or an error, after at most one listIndexes, one
\* createIndexes and as many dropIndex calls as names it listed; a
\* TypedMongo.syncIndexes call ends after calling each registered
\* collection at most once.
C30_Termination ==
  /\ [](C30_Bounds)
  /\ \A h \in H : InFlight(h) ~> Finished(h)
  /\ \A t \in TMs : (orch[t].pc = "await") ~> (orch[t].pc \in {"done", "failed"})

\* C30 witness: a syncIndexes call over two collections ended; each call it
\* made listed once, created once and dropped one index.
C30_Witness ==
  \E t \in TMs :
    /\ orch[t].pc = "done"
    /\ Len(orch[t].begun) = 2
    /\ \A i \in 1..Len(orch[t].begun) :
         LET r == run[orch[t].begun[i]]
         IN  r.pc = "done" /\ r.nList = 1 /\ r.nCreate = 1 /\ Len(r.dropCalls) = 1
====
